---- MODULE Spec2Model ----
(***************************************************************************)
(* Document rendering and PDF export pipeline of reports-backend.          *)
(*                                                                         *)
(* The repository holds three builds of the server: src/src/server.ts,     *)
(* its older compiled form src/dist/server.js, and the unnamed source file *)
(* src/unnamed/part_000 (a server that hydrates the report in place with   *)
(* lib/toDataUri).  The variable `variant` says which build serves the     *)
(* run.  The validator is the one compiled in src/dist/schema.js.          *)
(***************************************************************************)
EXTENDS Integers, Sequences, FiniteSets, TLC

VARIABLES
  variant,    \* which build of the server is running
  load,       \* "single": one request, every input shape; "concurrent": NumReq requests;
              \* "engine": one request, the page's events followed
  req,        \* per request: the handler's local state and its history
  browsers,   \* the browser processes launched so far, by handle
  lab         \* the text renderers: what they are asked and what they returned

vars == <<variant, load, req, browsers, lab>>

(* ------------------------------ bounds -------------------------------- *)
NumReq == 2          \* concurrent requests of the "concurrent" load
MaxComps == 2        \* components of a report of the "single" load
MaxPageEvents == 2   \* lines the page listeners log during an export

Requests == 1..NumReq

Variants == {"server_ts", "dist_js", "part_000"}

(* --------------------------- image references ------------------------- *)
\* An asset value: absent (undefined), a remote http(s) URL, a data: URI, or
\* a string that is no URL at all.  For a remote URL, ct is the content type
\* its origin declares ("" when it declares none) and body names its bytes;
\* for a data: URI, enc is the encoding its payload is written in.
Ref(kind, ct, enc, body) == [kind |-> kind, ct |-> ct, enc |-> enc, body |-> body]

NoRef      == Ref("none",   "",              "",       "")
RemoteLogo == Ref("remote", "image/jpeg",    "",       "logo")
RemoteHdr  == Ref("remote", "image/jpeg",    "",       "head")
RemoteFtr  == Ref("remote", "",              "",       "foot")
RemoteBg   == Ref("remote", "image/jpeg",    "",       "bg")
RemoteImg  == Ref("remote", "image/jpeg",    "",       "pic")
InlineLogo == Ref("data",   "image/gif",     "base64", "gif")
InlineSvg  == Ref("data",   "image/svg+xml", "utf8",   "svg")
NotAUrl    == Ref("text",   "",              "",       "logo")

Truthy(ref) == ref.kind # "none"

AssetKeys == <<"logo", "headerImage", "footerImage", "backgroundImage">>

(* ------------------------- schema and validator ----------------------- *)
\* A component of the raw input: its type tag, the keys its props object
\* carries, whether every carried value has the type its field asks for, and
\* (for an image) the url value.
PropKeys == {"text", "value", "size", "label", "lines", "headers", "rows",
             "title", "notes", "url", "alt", "caption"}

Comp(t, ks, ok, u) == [type |-> t, keys |-> ks, valuesOk |-> ok, url |-> u]

\* The members of z.discriminatedUnion("type", [...]): required and optional
\* props keys of each variant (every props object is .strict()).
SchemaVariants ==
  [header     |-> [required |-> {"text"},            optional |-> {}],
   subheader  |-> [required |-> {"text"},            optional |-> {}],
   date       |-> [required |-> {},                  optional |-> {"value"}],
   para       |-> [required |-> {"text"},            optional |-> {}],
   divider    |-> [required |-> {},                  optional |-> {}],
   spacer     |-> [required |-> {},                  optional |-> {"size"}],
   pagebreak  |-> [required |-> {},                  optional |-> {}],
   signature  |-> [required |-> {},                  optional |-> {"label", "lines"}],
   footerText |-> [required |-> {"text"},            optional |-> {}],
   table      |-> [required |-> {"headers", "rows"}, optional |-> {"title", "notes"}]]

SchemaTypes == DOMAIN SchemaVariants

\* The cases of the switch in renderBody.
RendererTypes == {"header", "subheader", "date", "para", "divider", "spacer",
                  "pagebreak", "signature", "footerText", "table", "image"}

\* Component.safeParse: the discriminator picks the variant, then the strict
\* props object is checked.
ComponentOk(c) ==
  /\ c.type \in SchemaTypes
  /\ SchemaVariants[c.type].required \subseteq c.keys
  /\ c.keys \subseteq (SchemaVariants[c.type].required \cup SchemaVariants[c.type].optional)
  /\ c.valuesOk

\* z.string().url().optional(): absent, or a string new URL() parses (a data:
\* URI parses as well as an http(s) one).
AssetOk(ref) == ref.kind \in {"none", "remote", "data"}

\* Assets is a plain z.object: keys it does not define are stripped, not
\* rejected, so backgroundImage never reaches the parsed report.
ParsedAssets(a) ==
  [k \in {"logo", "headerImage", "footerImage", "backgroundImage"} |->
     IF k = "backgroundImage" THEN NoRef ELSE a[k]]

\* HeaderCfg / FooterCfg .default({}): an absent group gets the defaults.
ParsedHeader(h) ==
  IF h.given THEN [visible |-> h.visible, repeat |-> h.repeat]
             ELSE [visible |-> TRUE, repeat |-> "all"]

ParsedFooter(f) ==
  IF f.given THEN [visible |-> f.visible] ELSE [visible |-> TRUE]

\* configs.page as it arrives: a field is a value or "absent".
Page(size, orientation, margin) == [size |-> size, orientation |-> orientation, margin |-> margin]

AbsentPage == Page("absent", "absent", "absent")

\* PageCfg: every field has a default.
ParsedPage(p) ==
  Page(IF p.size = "absent" THEN "A4" ELSE p.size,
       IF p.orientation = "absent" THEN "portrait" ELSE p.orientation,
       IF p.margin = "absent" THEN "20mm" ELSE p.margin)

NullReport ==
  [assets |-> ParsedAssets([k \in {"logo", "headerImage", "footerImage", "backgroundImage"} |-> NoRef]),
   header |-> [visible |-> FALSE, repeat |-> "all"],
   footer |-> [visible |-> FALSE],
   comps  |-> <<>>,
   page   |-> ParsedPage(AbsentPage)]

\* ReportSchema.safeParse(req.body)
safeParse(raw) ==
  LET ok == /\ ~raw.extraKey
            /\ \A k \in {"logo", "headerImage", "footerImage"} : AssetOk(raw.assets[k])
            /\ Len(raw.comps) >= 1
            /\ \A i \in 1..Len(raw.comps) : ComponentOk(raw.comps[i])
  IN [success |-> ok,
      data    |-> IF ok THEN [assets |-> ParsedAssets(raw.assets),
                              header |-> ParsedHeader(raw.header),
                              footer |-> ParsedFooter(raw.footer),
                              comps  |-> raw.comps,
                              page   |-> ParsedPage(raw.page)]
                        ELSE NullReport]

(* ------------------------------ renderers ----------------------------- *)
\* Markup is kept as the sequence of its elements that carry dynamic content:
\* the element, its alt text (which names the image's role) and its source.
Tok(el, alt, src) == [el |-> el, alt |-> alt, src |-> src]

Plain(el) == Tok(el, "", NoRef)

\* One component through the switch of renderBody; a type without a case
\* renders as the empty string.
renderBlock(c) ==
  IF c.type = "image" THEN <<Plain("section:image"), Tok("img", "image", c.url)>>
  ELSE IF c.type \in RendererTypes THEN <<Plain("section:" \o c.type)>>
  ELSE <<>>

RECURSIVE renderParts(_)
renderParts(comps) ==
  IF comps = <<>> THEN <<>>
  ELSE renderBlock(Head(comps)) \o renderParts(Tail(comps))

\* The logo and title of a header band (fixed or first-page).
bandContent(r) ==
  (IF Truthy(r.assets.logo) THEN <<Tok("img", "logo", r.assets.logo)>> ELSE <<>>)
  \o (IF Truthy(r.assets.headerImage)
        THEN <<Tok("img", "header", r.assets.headerImage)>>
        ELSE <<Plain("title")>>)

renderBody(r) ==
  LET firstPageHeader ==
        IF r.header.visible /\ r.header.repeat = "first"
          THEN <<Plain("first-page-header")>> \o bandContent(r) ELSE <<>>
      parts == renderParts(r.comps)
      fixedHeader ==
        IF r.header.visible /\ r.header.repeat = "all"
          THEN <<Plain("fixed-header")>> \o bandContent(r) ELSE <<>>
      fixedFooter ==
        IF r.footer.visible
          THEN <<Plain("fixed-footer")>>
               \o (IF Truthy(r.assets.footerImage)
                     THEN <<Tok("img", "footer", r.assets.footerImage)>> ELSE <<>>)
               \o <<Plain("footer-text")>>
          ELSE <<>>
      main == <<Plain("main")>> \o firstPageHeader \o parts
  IN fixedHeader \o main \o fixedFooter

renderHead(r) ==
  <<Plain("style")>>
  \o (IF Truthy(r.assets.backgroundImage)
        THEN <<Tok("background-image", "", r.assets.backgroundImage)>> ELSE <<>>)

htmlShell(head, body) ==
  <<Plain("script:tailwind")>> \o head \o <<Plain("style:page")>> \o body

\* The preview document and the export document (the export adds the print
\* rule that hides the fixed bands).
previewHtml(r) == htmlShell(renderHead(r), renderBody(r))

exportHtml(r) == htmlShell(renderHead(r) \o <<Plain("style:print-hide-bands")>>, renderBody(r))

(* ------------------------ pagination fragments ------------------------ *)
\* headerTemplate(report, tplAssets) of server.ts; part_000 passes the
\* report's own assets.
headerTemplate(r, logo, headerImage) ==
  IF ~r.header.visible THEN <<Plain("div")>>
  ELSE <<Plain("header-fragment")>>
       \o (IF Truthy(logo) THEN <<Tok("img", "logo", logo)>> ELSE <<>>)
       \o (IF Truthy(headerImage) THEN <<Tok("img", "header", headerImage)>>
                                  ELSE <<Plain("title")>>)

footerTemplate(r, footerImage) ==
  IF ~r.footer.visible THEN <<Plain("div")>>
  ELSE <<Plain("footer-fragment")>>
       \o (IF Truthy(footerImage) THEN <<Tok("img", "footer", footerImage)>> ELSE <<>>)
       \o <<Plain("footer-text")>>

\* What a piece of markup says about images.
ImageSources(m) == {m[i].src : i \in {j \in 1..Len(m) : m[j].el \in {"img", "background-image"}}}

HasRemoteImage(m) == \E s \in ImageSources(m) : s.kind = "remote"

HasImg(m, alt) == \E i \in 1..Len(m) : m[i].el = "img" /\ m[i].alt = alt

HasEl(m, el) == \E i \in 1..Len(m) : m[i].el = el

(* ------------------------------ hydration ----------------------------- *)
\* What fetch(url) can come to: a 2xx answer, a non-2xx status (the caller
\* throws), or a transport error (fetch throws).
FetchOutcomes == {"ok", "http_404", "net_error"}

FetchFailed(outcome) == outcome \in {"http_404", "net_error"}

\* A data: URL is decoded by fetch itself and always answers 200.
OutcomesFor(url) == IF url.kind = "data" THEN {"ok"} ELSE FetchOutcomes

\* res.headers.get("content-type") of a 2xx answer.
ResponseCt(url) == url.ct

\* `data:${ct};base64,${buf.toString("base64")}`
DataUri(ct, body) == Ref("data", ct, "base64", body)

Result(value, fetched, threw) == [value |-> value, fetched |-> fetched, threw |-> threw]

\* urlToDataUri without its try/catch: a failed fetch throws to the caller.
urlToDataUri_rethrow(url, outcome) ==
  IF ~Truthy(url) THEN Result(NoRef, FALSE, FALSE)
  ELSE IF FetchFailed(outcome) THEN Result(NoRef, TRUE, TRUE)
  ELSE Result(DataUri(IF ResponseCt(url) = "" THEN "image/png" ELSE ResponseCt(url), url.body),
              TRUE, FALSE)

\* urlToDataUri of server.ts / dist/server.js: null for an empty url, else
\* fetch; every failure is caught and logged and gives null.
urlToDataUri(url, outcome) ==
  IF ~Truthy(url) THEN Result(NoRef, FALSE, FALSE)
  ELSE IF FetchFailed(outcome) THEN Result(NoRef, TRUE, FALSE)
  ELSE Result(DataUri(IF ResponseCt(url) = "" THEN "image/png" ELSE ResponseCt(url), url.body),
              TRUE, FALSE)

\* Whether urlToDataUri(url) calls fetch.
urlToDataUriFetches(url) == Truthy(url)

\* toDataUri of lib/toDataUri (not among the sources; after the hydrator's
\* contract): nothing for an absent reference, an inline reference passed
\* through without retrieval, else fetch; a failure gives null.
toDataUri(url, outcome) ==
  IF ~Truthy(url) THEN Result(NoRef, FALSE, FALSE)
  ELSE IF url.kind = "data" THEN Result(url, FALSE, FALSE)
  ELSE IF FetchFailed(outcome) THEN Result(NoRef, TRUE, FALSE)
  ELSE Result(DataUri(IF ResponseCt(url) = "" THEN "image/png" ELSE ResponseCt(url), url.body),
              TRUE, FALSE)

toDataUriFetches(url) == Truthy(url) /\ url.kind # "data"

\* Image references are numbered: 1..4 the report-level assets in the order
\* of AssetKeys, 4 + i the url of component i.
NumAssetKeys == 4

RefIds == 1..(NumAssetKeys + MaxComps)

IsAssetId(id) == id <= NumAssetKeys

InPlace == variant = "part_000"

\* buildTemplateAssets reads logo, headerImage, footerImage; hydrateAssets
\* reads all four assets and the url of every image component.
HydratedIds(r) ==
  IF InPlace
    THEN (1..NumAssetKeys)
         \cup {NumAssetKeys + i : i \in {j \in 1..Len(r.comps) : r.comps[j].type = "image"}}
    ELSE 1..3

RefValue(r, id) ==
  IF IsAssetId(id) THEN r.assets[AssetKeys[id]] ELSE r.comps[id - NumAssetKeys].url

NeedsFetch(r, id) ==
  /\ id \in HydratedIds(r)
  /\ IF InPlace THEN toDataUriFetches(RefValue(r, id))
                ELSE urlToDataUriFetches(RefValue(r, id))

\* The awaits of buildTemplateAssets and the first four of hydrateAssets run
\* one after the other; hydrateAssets then maps the components inside
\* Promise.all, which starts every image component's fetch at once.
SequentialId(id) == IsAssetId(id)

\* The next calls to start, given the status of every reference: the first
\* pending asset once no asset is in flight, and every pending component
\* once all assets are settled.
Starts(st) ==
  LET seqOpen == {id \in RefIds : SequentialId(id) /\ st[id] \in {"pending", "inflight"}}
      first   == CHOOSE id \in seqOpen : \A o \in seqOpen : id <= o
  IN IF seqOpen # {}
       THEN (IF st[first] = "pending" THEN {first} ELSE {})
       ELSE {id \in RefIds : ~SequentialId(id) /\ st[id] = "pending"}

Advance(st) == [id \in RefIds |-> IF id \in Starts(st) THEN "inflight" ELSE st[id]]

InFlight(st) == {id \in RefIds : st[id] = "inflight"}

Pending(st) == {id \in RefIds : st[id] = "pending"}

HydrationOver(st) == InFlight(st) = {} /\ Pending(st) = {}

(* ------------------------------- inputs ------------------------------- *)
NoAssets == [k \in {"logo", "headerImage", "footerImage", "backgroundImage"} |-> NoRef]

Assets(l, h, f, b) ==
  [k \in {"logo", "headerImage", "footerImage", "backgroundImage"} |->
     CASE k = "logo" -> l [] k = "headerImage" -> h [] k = "footerImage" -> f [] OTHER -> b]

HeaderInputs ==
  {[given |-> FALSE, visible |-> FALSE, repeat |-> "first"]}
  \cup [given : {TRUE}, visible : BOOLEAN, repeat : {"all", "first"}]

FooterInputs ==
  {[given |-> FALSE, visible |-> FALSE]} \cup [given : {TRUE}, visible : BOOLEAN]

Para == Comp("para", {"text"}, TRUE, NoRef)

\* One well-formed component of every type the renderer knows, a component
\* of a type nobody knows, and components whose props do not fit.
SampleComps ==
  { Comp(t, SchemaVariants[t].required, TRUE, NoRef) : t \in SchemaTypes }
  \cup { Comp("image", {"url"}, TRUE, RemoteImg),
         Comp("chart", {"text"}, TRUE, NoRef),
         Comp("para", {}, TRUE, NoRef),
         Comp("para", {"text", "title"}, TRUE, NoRef),
         Comp("signature", {"lines"}, FALSE, NoRef),
         Comp("table", {"headers", "rows", "notes"}, TRUE, NoRef) }

CompSeqs == UNION {[1..n -> SampleComps] : n \in 0..MaxComps}

Raw(x, a, h, f, cs) ==
  [extraKey |-> x, assets |-> a, header |-> h, footer |-> f, comps |-> cs, page |-> AbsentPage]

DefaultHeader == [given |-> FALSE, visible |-> FALSE, repeat |-> "first"]

DefaultFooter == [given |-> FALSE, visible |-> FALSE]

VisibleHeader == [given |-> TRUE, visible |-> TRUE, repeat |-> "all"]

VisibleFooter == [given |-> TRUE, visible |-> TRUE]

\* The "single" load: every combination of image references under visible
\* bands, every header and footer setting with the references that matter
\* to them, and every component sequence without image references.
SingleInputs ==
  { Raw(FALSE, Assets(l, h, f, b), VisibleHeader, VisibleFooter, <<Para>>) :
      l \in {NoRef, RemoteLogo, InlineLogo}, h \in {NoRef, RemoteHdr},
      f \in {NoRef, RemoteFtr}, b \in {NoRef, RemoteBg} }
  \cup { Raw(FALSE, a, hd, ft, <<Para>>) :
           a \in {Assets(RemoteLogo, RemoteHdr, RemoteFtr, RemoteBg),
                  Assets(RemoteLogo, NoRef, NoRef, NoRef),
                  Assets(InlineLogo, NoRef, NoRef, NoRef),
                  Assets(InlineSvg, RemoteHdr, NoRef, NoRef)},
           hd \in HeaderInputs, ft \in FooterInputs }
  \cup { Raw(FALSE, NoAssets, DefaultHeader, DefaultFooter, cs) : cs \in CompSeqs }
  \cup { [Raw(FALSE, NoAssets, DefaultHeader, DefaultFooter, <<Para>>) EXCEPT
            !.page = Page(s, o, m)] :
           s \in {"absent", "A4", "Letter"}, o \in {"absent", "portrait", "landscape"},
           m \in {"absent", "10mm"} }
  \cup { Raw(TRUE, NoAssets, DefaultHeader, DefaultFooter, <<Para>>),
         Raw(FALSE, Assets(NotAUrl, NoRef, NoRef, NoRef), DefaultHeader, DefaultFooter, <<Para>>) }

\* The "concurrent" load: a valid report and an invalid one.
ConcurrentInputs ==
  { Raw(FALSE, NoAssets, DefaultHeader, DefaultFooter, <<Para>>),
    Raw(FALSE, NoAssets, DefaultHeader, DefaultFooter, <<>>) }

\* The "engine" load: a report with nothing to fetch, one with a logo to
\* fetch, and an invalid one.
Inputs ==
  IF load = "single" THEN SingleInputs
  ELSE IF load = "concurrent" THEN ConcurrentInputs
  ELSE { Raw(FALSE, NoAssets, DefaultHeader, DefaultFooter, <<Para>>),
         Raw(FALSE, Assets(RemoteLogo, NoRef, NoRef, NoRef), DefaultHeader, DefaultFooter,
             <<Para>>),
         Raw(TRUE, NoAssets, DefaultHeader, DefaultFooter, <<Para>>) }

Slots == IF load = "concurrent" THEN NumReq ELSE 1

(* --------------------------- request state ---------------------------- *)
NullRaw == Raw(FALSE, NoAssets, DefaultHeader, DefaultFooter, <<>>)

NullTpl == [k \in {"logo", "headerImage", "footerImage"} |-> NoRef]

NoPdfCall == [called |-> FALSE, html |-> <<>>, headerTemplate |-> <<>>,
              footerTemplate |-> <<>>, margin |-> "", format |-> "",
              landscape |-> FALSE, displayHeaderFooter |-> FALSE]

Ev(e, k) == [e |-> e, k |-> k]

IdleReq ==
  [pc        |-> "idle",      \* the await the handler is suspended at
   endpoint  |-> "none",
   raw       |-> NullRaw,     \* req.body
   valid     |-> FALSE,       \* parsed.success
   parsed    |-> NullReport,  \* parsed.data as the validator returned it
   report    |-> NullReport,  \* the report object the handler holds
   tpl       |-> NullTpl,     \* tplAssets (server.ts, dist/server.js)
   st        |-> [id \in RefIds |-> "skip"],
   fetched   |-> {},          \* references fetch() was called for
   failed    |-> {},          \* references whose fetch failed
   html      |-> <<>>,        \* the document built by htmlShell
   browser   |-> 0,           \* the local `browser` (0: null)
   pdf       |-> NoPdfCall,   \* the page.pdf call, once made
   responses |-> <<>>,        \* what was written to res
   thrown    |-> "",          \* the step whose error reached catch
   settled   |-> "no",        \* how the handler's promise ended
   pageLog   |-> <<>>,        \* lines the page listeners wrote to console.error
   events    |-> <<>>]        \* history of the pipeline steps

Response(status, kind, detail) == [status |-> status, kind |-> kind, detail |-> detail]

(* ----------------------- the handlers, step by step ------------------- *)
Log(q, e, k) == [q EXCEPT !.events = Append(@, Ev(e, k))]

\* A handler that never writes to res.
Respond_none(q, status, kind, detail) == q

Respond(q, status, kind, detail) ==
  [q EXCEPT !.responses = Append(@, Response(status, kind, detail))]

\* A handler that goes on after a failed validation.
Proceeds_always(p) == TRUE

\* if (!parsed.success) return res.status(400).json(...)
Proceeds(p) == p.success

Reject(q) ==
  [Respond(q, 400, "issues", "Invalid payload") EXCEPT !.pc = "done", !.settled = "resolved"]

\* A handle kept in one module-level variable shared by all requests.
BrowserOf_shared(q) == Len(browsers)

\* The handle the handler works with: its own local `browser`.
BrowserOf(q) == q.browser

\* finally { if (browser) await browser.close(); }
ShouldClose(q) == BrowserOf(q) # 0

\* A catch block that logs the error and sends nothing.
Catch_silent(q, step) == [Log(q, "catch", 0) EXCEPT !.thrown = step]

\* catch (e) { res.status(500).json({ error, detail }) }
Catch(q, step) ==
  [Log(Respond(q, 500, "error", step), "catch", 0) EXCEPT !.thrown = step]

\* The finally block: the handler awaits close, or returns at once.
Finally(q) ==
  IF ShouldClose(q) THEN [q EXCEPT !.pc = "close"]
  ELSE [q EXCEPT !.pc = "done", !.settled = "resolved"]

\* An error outside any try: the handler's promise rejects, nothing is sent.
Unhandled(q, step) == [q EXCEPT !.thrown = step, !.pc = "done", !.settled = "rejected"]

RenderExport(q) == [Log(q, "render", 0) EXCEPT !.html = exportHtml(q.report)]

RenderPreview(q) ==
  [Respond([Log(q, "render", 0) EXCEPT !.html = previewHtml(q.report)], 200, "html", "")
     EXCEPT !.pc = "done", !.settled = "resolved"]

\* The code that runs once the last hydration await has resolved, up to the
\* next await.
AfterHydration(q) ==
  LET q1 == Log(q, "hydrated", 0)
  IN IF InPlace
       THEN IF q.endpoint = "export"
              THEN [RenderExport(q1) EXCEPT !.pc = "launch"]
              ELSE RenderPreview(q1)
       ELSE [q1 EXCEPT !.pc = "launch"]

\* The call of buildTemplateAssets / hydrateAssets up to its first fetch.
BeginHydration(q) ==
  LET st1 == Advance([id \in RefIds |-> IF NeedsFetch(q.report, id) THEN "pending" ELSE "skip"])
      q1  == [Log(q, "hydrate", 0) EXCEPT !.st = st1, !.fetched = InFlight(st1)]
  IN IF HydrationOver(st1) THEN AfterHydration(q1) ELSE [q1 EXCEPT !.pc = "hydrate"]

\* What is done with the value a hydration call returned: server.ts keeps
\* it in tplAssets; part_000 writes it over the report, keeping the old
\* value when the call gave null (`?? report.assets.logo`).
Store(q, id, value) ==
  IF InPlace
    THEN IF ~Truthy(value) THEN q
         ELSE IF IsAssetId(id)
                THEN [q EXCEPT !.report.assets[AssetKeys[id]] = value]
                ELSE [q EXCEPT !.report.comps[id - NumAssetKeys].url = value]
    ELSE [q EXCEPT !.tpl[AssetKeys[id]] = value]

\* The body of a route after a successful validation, up to its first await.
Accept(q, data) ==
  LET q1 == [q EXCEPT !.parsed = data, !.report = data]
  IN IF InPlace THEN BeginHydration(q1)
     ELSE IF q.endpoint = "preview" THEN RenderPreview(q1)
     ELSE BeginHydration(RenderExport(q1))

\* POST /render and POST /render.pdf arrive.
Receive(r) ==
  /\ req[r].pc = "idle"
  /\ r <= Slots
  /\ \E ep \in {"preview", "export"}, raw \in Inputs :
       LET p  == safeParse(raw)
           q0 == [Log(req[r], "validate", 0) EXCEPT
                    !.endpoint = ep, !.raw = raw, !.valid = p.success]
       IN req' = [req EXCEPT ![r] = IF Proceeds(p) THEN Accept(q0, p.data) ELSE Reject(q0)]
  /\ UNCHANGED <<variant, load, browsers, lab>>

\* browsers with the close call of request r's finally block recorded.
CloseCalled(bs, q, r) ==
  IF ShouldClose(q)
    THEN [bs EXCEPT ![BrowserOf(q)] = [@ EXCEPT !.closedBy = Append(@, r), !.state = "closing"]]
    ELSE bs

\* browsers with request r's use of its handle recorded.
Used(bs, q, r) == [bs EXCEPT ![BrowserOf(q)] = [@ EXCEPT !.users = @ \cup {r}]]

\* A fetch started by hydration comes back.
FetchDone(r) ==
  /\ req[r].pc = "hydrate"
  /\ \E id \in InFlight(req[r].st) :
     \E outcome \in OutcomesFor(RefValue(req[r].report, id)) :
       LET q   == req[r]
           url == RefValue(q.report, id)
           res == IF InPlace THEN toDataUri(url, outcome) ELSE urlToDataUri(url, outcome)
           q1  == [Log(q, "fetched", id) EXCEPT
                     !.st[id] = "done",
                     !.failed = IF FetchFailed(outcome) THEN @ \cup {id} ELSE @]
           q2  == Store(q1, id, res.value)
           st2 == Advance(q2.st)
           q3  == [q2 EXCEPT !.st = st2, !.fetched = @ \cup InFlight(st2)]
       IN req' = [req EXCEPT ![r] =
                    IF res.threw
                      THEN IF InPlace THEN Unhandled(q1, "hydrate")
                                      ELSE Finally(Catch(q1, "hydrate"))
                    ELSE IF HydrationOver(st2) THEN AfterHydration(q3)
                    ELSE q3]
  /\ UNCHANGED <<variant, load, browsers, lab>>

\* A print-engine step of request r failed: catch, then finally.
Failed(r, step) ==
  LET q == Finally(Catch(req[r], step))
  IN /\ req' = [req EXCEPT ![r] = q]
     /\ browsers' = CloseCalled(browsers, q, r)

\* puppeteer.launch() settles.
LaunchDone(r) ==
  /\ req[r].pc = "launch"
  /\ \E ok \in BOOLEAN :
       IF ok
         THEN /\ browsers' = Append(browsers, [owner |-> r, state |-> "open",
                                                closedBy |-> <<>>, users |-> {}])
              /\ req' = [req EXCEPT ![r] =
                           [Log(@, "launched", 0) EXCEPT !.browser = Len(browsers) + 1,
                                                         !.pc = "newPage"]]
         ELSE Failed(r, "launch")
  /\ UNCHANGED <<variant, load, lab>>

\* browser.newPage() settles; the two page listeners are registered and
\* setContent is called.
NewPageDone(r) ==
  /\ req[r].pc = "newPage"
  /\ \E ok \in BOOLEAN :
       IF ok
         THEN /\ req' = [req EXCEPT ![r] = [Log(@, "page", 0) EXCEPT !.pc = "setContent"]]
              /\ browsers' = Used(browsers, req[r], r)
         ELSE Failed(r, "newPage")
  /\ UNCHANGED <<variant, load, lab>>

\* A listener that lets the event end the export.
OnPageEvent_abort(q, kind) == Finally(Catch(q, kind))

\* page.on("pageerror", ...) and page.on("console", ...): a line on
\* console.error for a page error and for a console message of type error,
\* nothing for any other console message.
OnPageEvent(q, kind) ==
  IF kind = "pageerror" THEN [q EXCEPT !.pageLog = Append(@, "[pageerror]")]
  ELSE IF kind = "console:error" THEN [q EXCEPT !.pageLog = Append(@, "[console]")]
  ELSE q

\* The page of request r emits an event while the engine works on it (the
\* events are followed in the "engine" load).
PageEvent(r) ==
  /\ load = "engine"
  /\ req[r].pc \in {"setContent", "emulate", "pdf"}
  /\ Len(req[r].pageLog) < MaxPageEvents
  /\ \E kind \in {"pageerror", "console:error", "console:log"} :
       LET q == OnPageEvent(req[r], kind)
       IN /\ req' = [req EXCEPT ![r] = q]
          /\ browsers' = IF q.pc = req[r].pc THEN browsers ELSE CloseCalled(browsers, q, r)
  /\ UNCHANGED <<variant, load, lab>>

\* page.setContent(html, ...) settles; emulateMediaType is called.
SetContentDone(r) ==
  /\ req[r].pc = "setContent"
  /\ \E ok \in BOOLEAN :
       IF ok
         THEN /\ req' = [req EXCEPT ![r] = [Log(@, "content", 0) EXCEPT !.pc = "emulate"]]
              /\ browsers' = Used(browsers, req[r], r)
         ELSE Failed(r, "setContent")
  /\ UNCHANGED <<variant, load, lab>>

\* The assets the pagination fragments are built from.
FragmentAssets(q) == IF InPlace THEN q.report.assets ELSE q.tpl

\* margin of the page.pdf options
PdfMargin ==
  IF variant = "dist_js"
    THEN [top |-> "30mm", bottom |-> "30mm", left |-> "15mm", right |-> "15mm"]
    ELSE [top |-> "0mm", bottom |-> "0mm", left |-> "0mm", right |-> "0mm"]

pdfFormat_a4(report) == "A4"

\* format of the page.pdf options
pdfFormat(report) == IF report.page.size = "Letter" THEN "Letter" ELSE "A4"

\* landscape of the page.pdf options
pdfLandscape(report) == report.page.orientation = "landscape"

\* page.emulateMediaType("print") settles; page.pdf is called with the
\* two fragments.
EmulateDone(r) ==
  /\ req[r].pc = "emulate"
  /\ \E ok \in BOOLEAN :
       IF ok
         THEN LET q == req[r]
                  a == FragmentAssets(q)
              IN /\ req' = [req EXCEPT ![r] =
                      [Log(q, "print", 0) EXCEPT
                         !.pc = "pdf",
                         !.pdf = [called |-> TRUE,
                                  html |-> q.html,
                                  headerTemplate |->
                                    headerTemplate(q.report, a.logo, a.headerImage),
                                  footerTemplate |-> footerTemplate(q.report, a.footerImage),
                                  margin |-> PdfMargin,
                                  format |-> pdfFormat(q.report),
                                  landscape |-> pdfLandscape(q.report),
                                  displayHeaderFooter |-> TRUE]]]
                 /\ browsers' = Used(browsers, q, r)
         ELSE Failed(r, "emulateMediaType")
  /\ UNCHANGED <<variant, load, lab>>

\* page.pdf() settles.  With the bytes in hand the handler sets the headers
\* (Node refuses a Content-Disposition value with an illegal character,
\* which the report name may bring) and ends the response.
PdfDone(r) ==
  /\ req[r].pc = "pdf"
  /\ \E ok \in BOOLEAN, headerOk \in BOOLEAN :
       IF ok /\ headerOk
         THEN LET q == Finally(Respond(Log(req[r], "pdf", 0), 200, "pdf", ""))
              IN /\ req' = [req EXCEPT ![r] = q]
                 /\ browsers' = CloseCalled(Used(browsers, req[r], r), q, r)
         ELSE IF ok THEN Failed(r, "setHeader")
         ELSE Failed(r, "pdf")
  /\ UNCHANGED <<variant, load, lab>>

\* browser.close() settles and the handler returns.
CloseDone(r) ==
  /\ req[r].pc = "close"
  /\ browsers' = [browsers EXCEPT ![BrowserOf(req[r])] = [@ EXCEPT !.state = "closed"]]
  /\ req' = [req EXCEPT ![r] = [Log(@, "closed", 0) EXCEPT !.pc = "done", !.settled = "resolved"]]
  /\ UNCHANGED <<variant, load, lab>>

(* ------------------------- markup as text ----------------------------- *)
\* The renderers of src/src/renderers.ts at the level of characters.  A
\* string is a sequence of characters; a few longer pieces that the code
\* only ever handles whole (a placeholder, a word, an ISO date) are one
\* element of the sequence.
MaxStr == 2          \* characters of a user-supplied string
MaxRows == 3         \* body rows of a table
MaxTpl == 2          \* pieces of a footer text template
MaxName == 2         \* characters of a report name
MaxDay == 2          \* days the clock runs over

\* JavaScript values: what String(v) gives, and the number a number is.
Str(s) == [t |-> "string", s |-> s, n |-> 0]

Num(n) == [t |-> "number", s |-> <<ToString(n)>>, n |-> n]

Null == [t |-> "null", s |-> <<"null">>, n |-> 0]

Undefined == [t |-> "undefined", s |-> <<"undefined">>, n |-> 0]

String(v) == v.s

\* v == null
IsNullish(v) == v.t \in {"null", "undefined"}

\* Boolean(v)
IsTruthy(v) ==
  CASE v.t = "string" -> v.s # <<>>
    [] v.t = "number" -> v.n # 0
    [] OTHER -> FALSE

RECURSIVE replaceAll(_, _, _)
replaceAll(s, ch, rep) ==
  IF s = <<>> THEN <<>>
  ELSE (IF Head(s) = ch THEN rep ELSE <<Head(s)>>) \o replaceAll(Tail(s), ch, rep)

\* The characters esc replaces, each with what replaces it.
Entity ==
  [c \in {"&", "<", ">", "\"", "'"} |->
     CASE c = "&"  -> <<"&", "a", "m", "p", ";">>
       [] c = "<"  -> <<"&", "l", "t", ";">>
       [] c = ">"  -> <<"&", "g", "t", ";">>
       [] c = "\"" -> <<"&", "q", "u", "o", "t", ";">>
       [] c = "'"  -> <<"&", "#", "3", "9", ";">>]

esc_raw(v) == IF IsNullish(v) THEN <<>> ELSE String(v)

esc(v) ==
  IF IsNullish(v) THEN <<>>
  ELSE replaceAll(replaceAll(replaceAll(replaceAll(replaceAll(String(v),
         "&", Entity["&"]), "<", Entity["<"]), ">", Entity[">"]),
         "\"", Entity["\""]), "'", Entity["'"])

escapeHtml(s) ==
  replaceAll(replaceAll(replaceAll(replaceAll(replaceAll(s,
    "&", Entity["&"]), "<", Entity["<"]), ">", Entity[">"]),
    "\"", Entity["\""]), "'", Entity["'"])

\* A piece of markup: text of the template itself, or text inserted from the
\* field f of the report.
Lit(s) == [k |-> "lit", f |-> "", t |-> <<s>>]

Ins(f, t) == [k |-> "ins", f |-> f, t |-> t]

\* cs.filter(Boolean).join(" ")
tw(cs) ==
  LET RECURSIVE join(_)
      join(items) ==
        IF Len(items) <= 1 THEN items
        ELSE <<Head(items), Lit(" ")>> \o join(Tail(items))
  IN join(SelectSeq(cs, LAMBDA c : c.t # <<>>))

\* style?.slot as a class source
StyleOf(style, slot) ==
  Ins("style." \o slot, IF IsTruthy(style[slot]) THEN String(style[slot]) ELSE <<>>)

\* <tag class="...">
Open(tag, cs) == <<Lit("<" \o tag \o " class=\"")>> \o tw(cs) \o <<Lit("\">")>>

\* new Date().toISOString().slice(0, 10) on day d, and the same day formatted
IsoDate(d) == "2024-01-0" \o ToString(d)

FormatDate(d) == "0" \o ToString(d) \o " Jan 2024"

\* iso.slice(0, 10): an ISO date counts for its ten characters.
RECURSIVE slice(_, _)
slice(s, room) ==
  IF s = <<>> THEN <<>>
  ELSE LET w == IF \E d \in 1..MaxDay : Head(s) = IsoDate(d) THEN 10 ELSE 1
       IN IF w > room THEN <<>> ELSE <<Head(s)>> \o slice(Tail(s), room - w)

\* Number.isFinite(d.getTime()) holds, of the strings here, for those that
\* are an ISO date.
dateFmt(iso, today) ==
  IF ~IsTruthy(iso) THEN <<IsoDate(today)>>
  ELSE LET s == slice(String(iso), 10)
           finite == Len(s) = 1 /\ \E d \in 1..MaxDay : s[1] = IsoDate(d)
       IN IF ~finite THEN esc(iso)
          ELSE <<FormatDate(CHOOSE d \in 1..MaxDay : s[1] = IsoDate(d))>>

headerBlock(props, style) ==
  Open("section", <<Lit("mb-3"), StyleOf(style, "wrapper")>>)
  \o Open("h1", <<Lit("text-2xl font-bold text-slate-800"), StyleOf(style, "title")>>)
  \o <<Ins("props.text", esc(props.text)), Lit("</h1></section>")>>

subheaderBlock(props, style) ==
  Open("section", <<Lit("mb-2"), StyleOf(style, "wrapper")>>)
  \o Open("h2", <<Lit("text-xl font-semibold text-slate-700"), StyleOf(style, "title")>>)
  \o <<Ins("props.text", esc(props.text)), Lit("</h2></section>")>>

alignFlex(a) ==
  IF a = "left" THEN "justify-start" ELSE IF a = "center" THEN "justify-center" ELSE "justify-end"

dateBlock(props, style, cfg, today) ==
  Open("section", <<Lit("mb-2 flex"), Lit(alignFlex(cfg.date.align)), StyleOf(style, "wrapper")>>)
  \o Open("div", <<Lit("text-sm text-slate-600"), StyleOf(style, "text")>>)
  \o <<Ins("props.value", esc(Str(dateFmt(props.value, today)))), Lit("</div></section>")>>

paraBlock(props, style) ==
  Open("section", <<Lit("mb-3"), StyleOf(style, "wrapper")>>)
  \o Open("p", <<Lit("text-justify"), StyleOf(style, "text")>>)
  \o <<Ins("props.text", esc(props.text)), Lit("</p></section>")>>

\* style="border-color:${colors.border}"
BorderColor(colors) ==
  <<Lit(" style=\"border-color:"), Ins("colors.border", String(colors.border))>>

dividerBlock(colors, style) ==
  <<Lit("<hr class=\"")>> \o tw(<<Lit("my-4"), StyleOf(style, "hr")>>) \o <<Lit("\"")>>
  \o BorderColor(colors) \o <<Lit("\"/>")>>

spacerBlock(props, style) ==
  LET size == IF IsTruthy(props.size) THEN String(props.size) ELSE <<"md">>
      m == CASE size = <<"xs">> -> Lit("h-2") [] size = <<"sm">> -> Lit("h-4")
             [] size = <<"md">> -> Lit("h-8") [] size = <<"lg">> -> Lit("h-12")
             [] size = <<"xl">> -> Lit("h-20") [] OTHER -> Ins("", <<>>)
  IN Open("div", <<m, StyleOf(style, "wrapper")>>) \o <<Lit("</div>")>>

pagebreakBlock == <<Lit("<div class=\"pagebreak\"></div>")>>

RECURSIVE repeat(_, _)
repeat(n, x) == IF n = 0 THEN <<>> ELSE x \o repeat(n - 1, x)

signatureBlock(props, style, colors) ==
  LET lines == IF IsNullish(props.lines) THEN 1 ELSE props.lines.n
      min == IF 5 < lines THEN 5 ELSE lines
      n == IF 1 > min THEN 1 ELSE min
      line == <<Lit("<div class=\"border-b\"")>> \o BorderColor(colors)
              \o <<Lit(";height:2rem;\"></div>")>>
  IN Open("section", <<Lit("mt-8"), StyleOf(style, "wrapper")>>)
     \o <<Lit("<div class=\"flex flex-col gap-6 w-64\">")>>
     \o repeat(n, line)
     \o Open("div", <<Lit("text-sm text-slate-600"), StyleOf(style, "label")>>)
     \o <<Ins("props.label", esc(IF IsTruthy(props.label) THEN props.label ELSE Str(<<>>))),
          Lit("</div></div></section>")>>

footerTextBlock(props, style) ==
  Open("section", <<Lit("mt-8 text-center text-sm text-slate-600"), StyleOf(style, "text")>>)
  \o <<Ins("props.text", esc(props.text)), Lit("</section>")>>

RECURSIVE flatMap(_, _, _)
\* xs.map(f).join(""), f being given the element and its index from 0
flatMap(xs, f(_, _), i) ==
  IF xs = <<>> THEN <<>> ELSE f(Head(xs), i) \o flatMap(Tail(xs), f, i + 1)

rowBg_even(striped, i) == IF striped /\ i % 2 = 0 THEN "bg-gray-50" ELSE ""

\* cfg.table.striped && i % 2 === 1 ? "bg-gray-50" : ""
rowBg(striped, i) == IF striped /\ i % 2 = 1 THEN "bg-gray-50" ELSE ""

tableBlock(props, style, cfg, colors) ==
  LET title == IF IsTruthy(props.title)
                 THEN Open("div", <<Lit("mb-2 font-semibold text-slate-800"),
                                    StyleOf(style, "title")>>)
                      \o <<Ins("props.title", esc(props.title)), Lit("</div>")>>
                 ELSE <<>>
      compact == IF cfg.table.compact THEN "py-1 px-2 text-sm" ELSE "py-2 px-3"
      theadClass == tw(<<StyleOf(style, "thead"),
                         Ins("table.headerBg", IF IsTruthy(cfg.table.headerBg)
                                                 THEN String(cfg.table.headerBg) ELSE <<>>)>>)
      th(h, i) == <<Lit("<th class=\"" \o compact \o " border-b font-semibold text-left\"")>>
                  \o BorderColor(colors)
                  \o <<Lit("\">"), Ins("props.headers", esc(h)), Lit("</th>")>>
      thead == flatMap(props.headers, th, 0)
      td(c, j) == <<Lit("<td class=\"" \o compact \o " border-b\"")>> \o BorderColor(colors)
                  \o <<Lit("\">"), Ins("props.rows", esc(c)), Lit("</td>")>>
      tr(row, i) == <<Lit("<tr class=\""), Lit(rowBg(cfg.table.striped, i)), Lit("\">")>>
                    \o flatMap(row, td, 0) \o <<Lit("</tr>")>>
      body == flatMap(props.rows, tr, 0)
      notes == IF IsTruthy(props.notes)
                 THEN <<Lit("<div class=\"mt-2 text-xs text-slate-500\">"),
                        Ins("props.notes", esc(props.notes)), Lit("</div>")>>
                 ELSE <<>>
  IN Open("section", <<Lit("my-4"), StyleOf(style, "wrapper")>>)
     \o title
     \o Open("div", <<Lit("tbl-wrap overflow-x-auto"), StyleOf(style, "container")>>)
     \o <<Lit("<table class=\"")>>
     \o tw(<<Lit("tbl w-full border-collapse"), Ins("table.border", String(cfg.table.border))>>)
     \o <<Lit("\"")>> \o BorderColor(colors)
     \o <<Lit("\"><thead class=\"")>> \o theadClass \o <<Lit("\">")>>
     \o (IF thead # <<>> THEN <<Lit("<tr>")>> \o thead \o <<Lit("</tr>")>> ELSE <<>>)
     \o <<Lit("</thead><tbody>")>> \o body \o <<Lit("</tbody></table></div>")>>
     \o notes \o <<Lit("</section>")>>

imageBlock(props, style) ==
  LET sizing == (IF IsTruthy(props.width)
                   THEN <<Lit("width:"), Ins("props.width", String(props.width)), Lit(";")>>
                   ELSE <<>>)
                \o (IF IsTruthy(props.height)
                      THEN <<Lit("height:"), Ins("props.height", String(props.height)), Lit(";")>>
                      ELSE <<>>)
      cap == IF IsTruthy(props.caption)
               THEN Open("div", <<Lit("text-xs text-slate-500 mt-1 text-center"),
                                  StyleOf(style, "caption")>>)
                    \o <<Ins("props.caption", esc(props.caption)), Lit("</div>")>>
               ELSE <<>>
  IN Open("section", <<Lit("my-4"), StyleOf(style, "wrapper")>>)
     \o <<Lit("<img src=\""), Ins("props.url", esc(props.url)), Lit("\" alt=\""),
          Ins("props.alt", esc(IF IsTruthy(props.alt) THEN props.alt ELSE Str(<<>>))),
          Lit("\" class=\"")>>
     \o tw(<<Lit("max-w-full mx-auto"), StyleOf(style, "img")>>)
     \o <<Lit("\" style=\"")>> \o sizing \o <<Lit("\"/>")>> \o cap \o <<Lit("</section>")>>

\* <img src="${ref}" .../> when the reference is set
Img(f, ref, attrs) ==
  IF IsTruthy(ref) THEN <<Lit("<img src=\""), Ins(f, String(ref)), Lit("\" " \o attrs \o "/>")>>
  ELSE <<>>

\* The logo and the header image or report name of a header band.
bandText(r, titleClass) ==
  <<Lit("<div class=\"flex items-center justify-" \o r.configs.header.align \o "\">")>>
  \o Img("assets.logo", r.assets.logo, "alt=\"logo\" class=\"h-8 mr-3\"")
  \o (IF IsTruthy(r.assets.headerImage)
        THEN Img("assets.headerImage", r.assets.headerImage, "alt=\"header\" class=\"h-10\"")
        ELSE <<Lit("<div class=\"" \o titleClass \o "\">"),
               Ins("reportName", escapeHtml(String(r.reportName))), Lit("</div>")>>)
  \o <<Lit("</div>")>>

\* The switch of renderBody for one component.
partText(c, r, today) ==
  CASE c.type = "header"     -> headerBlock(c.props, c.style)
    [] c.type = "subheader"  -> subheaderBlock(c.props, c.style)
    [] c.type = "date"       -> dateBlock(c.props, c.style, r.configs, today)
    [] c.type = "para"       -> paraBlock(c.props, c.style)
    [] c.type = "divider"    -> dividerBlock(r.colors, c.style)
    [] c.type = "spacer"     -> spacerBlock(c.props, c.style)
    [] c.type = "pagebreak"  -> pagebreakBlock
    [] c.type = "signature"  -> signatureBlock(c.props, c.style, r.colors)
    [] c.type = "footerText" -> footerTextBlock(c.props, c.style)
    [] c.type = "table"      -> tableBlock(c.props, c.style, r.configs, r.colors)
    [] c.type = "image"      -> imageBlock(c.props, c.style)
    [] OTHER                 -> <<>>

\* s.replace(piece, rep): the first occurrence only
RECURSIVE replace(_, _, _)
replace(s, piece, rep) ==
  IF s = <<>> THEN <<>>
  ELSE IF Head(s) = piece THEN rep \o Tail(s)
  ELSE <<Head(s)>> \o replace(Tail(s), piece, rep)

\* renderBody at the level of characters; today is what new Date() reads.
renderBodyText(r, today) ==
  LET firstPageHeader ==
        IF r.configs.header.visible /\ r.configs.header.repeat = "first"
          THEN <<Lit("<section class=\"mb-6 border-b pb-3\"")>> \o BorderColor(r.colors)
               \o <<Lit("\">")>> \o bandText(r, "text-xl font-semibold") \o <<Lit("</section>")>>
          ELSE <<>>
      part(c, i) == partText(c, r, today)
      parts == flatMap(r.components, part, 0)
      fixedHeader ==
        IF r.configs.header.visible /\ r.configs.header.repeat = "all"
          THEN <<Lit("<header class=\"fixed-header border-b\"")>> \o BorderColor(r.colors)
               \o <<Lit("\">")>> \o bandText(r, "font-semibold") \o <<Lit("</header>")>>
          ELSE <<>>
      fixedFooter ==
        IF r.configs.footer.visible
          THEN <<Lit("<footer class=\"fixed-footer border-t px-4\"")>> \o BorderColor(r.colors)
               \o <<Lit("\">")>>
               \o Img("assets.footerImage", r.assets.footerImage, "alt=\"footer\" class=\"h-6 mr-2\"")
               \o <<Lit("<span class=\"text-sm text-gray-600\">"),
                    Ins("footer.text",
                        replace(replace(String(r.configs.footer.text), "{{page}}", <<>>),
                                "{{pages}}", <<>>)),
                    Lit("</span></footer>")>>
          ELSE <<>>
      main == <<Lit("<main class=\"prose max-w-none text-[0] body-wrap\"><div class=\"text-[inherit] "),
                Ins("font.base", String(r.configs.font.base)), Lit(" "),
                Ins("font.leading", String(r.configs.font.leading)),
                Lit("\" style=\"font-family:"),
                Ins("font.family", String(r.configs.font.family)), Lit("\">")>>
              \o firstPageHeader \o parts \o <<Lit("</div></main>")>>
  IN fixedHeader \o main \o fixedFooter

\* A header height reserved whenever the header is visible.
headerH_visible(r) == IF r.configs.header.visible THEN "48px" ELSE "0px"

\* --header-h of the stylesheet
headerH(r) ==
  IF r.configs.header.visible /\ r.configs.header.repeat = "all" THEN "48px" ELSE "0px"

renderHeadText(r) ==
  <<Lit("<style>:root{--color-text:"), Ins("colors.text", String(r.colors.text)),
    Lit(";--color-border:"), Ins("colors.border", String(r.colors.border)),
    Lit(";--color-bg:"), Ins("colors.background", String(r.colors.background)),
    Lit(";--page-size:" \o r.configs.page.size),
    Lit(";--page-orientation:" \o r.configs.page.orientation),
    Lit(";--page-margin:"), Ins("page.margin", String(r.configs.page.margin)),
    Lit(";--header-h:" \o headerH(r)),
    Lit(";--footer-h:" \o (IF r.configs.footer.visible THEN "40px" ELSE "0px")),
    Lit(";} body {")>>
  \o (IF IsTruthy(r.assets.backgroundImage)
        THEN <<Lit("background-image:url('"),
               Ins("assets.backgroundImage", String(r.assets.backgroundImage)), Lit("');")>>
        ELSE <<>>)
  \o <<Lit("} ... </style>")>>

\* What the footer fragment puts in place of the placeholders and words.
Marks ==
  [nbsp       |-> "&nbsp;",
   pageNumber |-> "<span class=\"pageNumber\"></span>",
   totalPages |-> "<span class=\"totalPages\"></span>",
   page       |-> "<span style=\"padding-right:2px;\">Page</span>",
   of         |-> "<span style=\"padding:0 2px;\">of</span>"]

DefaultFooterText == <<"Page", " ", "{{page}}", " ", "of", " ", "{{pages}}">>

\* textHtml of footerTemplate.  Next to a piece made of word characters
\* there is no \b.
textHtml(text) ==
  LET IsWord(piece) == piece \in {"Page", "of", "a"}
      RECURSIVE replaceWord(_, _, _, _)
      replaceWord(s, word, rep, before) ==
        IF s = <<>> THEN <<>>
        ELSE IF /\ Head(s) = word
                /\ ~IsWord(before)
                /\ (Len(s) = 1 \/ ~IsWord(s[2]))
               THEN <<rep>> \o Tail(s)
        ELSE <<Head(s)>> \o replaceWord(Tail(s), word, rep, Head(s))
      raw == IF text = <<>> THEN DefaultFooterText ELSE text
      s1 == replaceAll(raw, "{{page}}", <<Marks.nbsp, Marks.pageNumber, Marks.nbsp>>)
      s2 == replaceAll(s1, "{{pages}}", <<Marks.nbsp, Marks.totalPages>>)
      s3 == IF s2 # <<>> /\ Head(s2) = "Page" /\ (Len(s2) = 1 \/ ~IsWord(s2[2]))
              THEN <<Marks.page>> \o Tail(s2) ELSE s2
  IN replaceWord(s3, "of", Marks.of, "")

justifyCSS(a) ==
  IF a = "left" THEN "flex-start" ELSE IF a = "right" THEN "flex-end" ELSE "center"

\* footerTemplate at the level of characters
footerTemplateText(r, footerImage) ==
  IF ~r.configs.footer.visible THEN <<Lit("<div></div>")>>
  ELSE LET t == textHtml(String(r.configs.footer.text))
       IN <<Lit("<div style=\"font-size:10px;color:"), Ins("colors.text", String(r.colors.text)),
            Lit(";justify-content:" \o justifyCSS(r.configs.footer.align) \o ";border-top:1px solid "),
            Ins("colors.border", String(r.colors.border)), Lit(";font-family:"),
            Ins("font.family", String(r.configs.font.family)), Lit(";\">")>>
          \o Img("footerImage", footerImage, "style=\"height:14px;margin-right:8px;\"")
          \o [i \in 1..Len(t) |->
                IF \E k \in DOMAIN Marks : t[i] = Marks[k] THEN Lit(t[i])
                ELSE Ins("footer.text", <<t[i]>>)]
          \o <<Lit("</div>")>>

\* NFKD makes an accented letter the letter and a combining mark; the
\* characters from \u0080 on become "_"; runs of "_" become one; characters
\* that are not \w are trimmed from both ends.
asciiFilename(raw) ==
  LET WordChars == {"a", "e", "r", "p", "o", "t", "_"}
      RECURSIVE normalize(_)
      normalize(s) ==
        IF s = <<>> THEN <<>>
        ELSE (IF Head(s) = "U+00E9" THEN <<"e", "U+0301">> ELSE <<Head(s)>>)
             \o normalize(Tail(s))
      RECURSIVE replaceNonAscii(_)
      replaceNonAscii(s) ==
        IF s = <<>> THEN <<>>
        ELSE <<IF Head(s) \in {"U+00E9", "U+0301", "U+65E5"} THEN "_" ELSE Head(s)>>
             \o replaceNonAscii(Tail(s))
      RECURSIVE collapse(_)
      collapse(s) ==
        IF Len(s) < 2 THEN s
        ELSE IF s[1] = "_" /\ s[2] = "_" THEN collapse(Tail(s))
        ELSE <<Head(s)>> \o collapse(Tail(s))
      RECURSIVE trimStart(_)
      trimStart(s) == IF s # <<>> /\ Head(s) \notin WordChars THEN trimStart(Tail(s)) ELSE s
      RECURSIVE trimEnd(_)
      trimEnd(s) ==
        IF s # <<>> /\ s[Len(s)] \notin WordChars THEN trimEnd(SubSeq(s, 1, Len(s) - 1)) ELSE s
      trimmed == trimEnd(trimStart(collapse(replaceNonAscii(normalize(raw)))))
  IN IF trimmed = <<>> THEN <<"r", "e", "p", "o", "r", "t">> ELSE trimmed

\* The filename of the Content-Disposition header.
exportFilename(name) ==
  LET pdf == <<".", "p", "d", "f">>
  IN CASE variant = "server_ts" -> replaceAll(asciiFilename(name) \o pdf, "\"", <<>>)
       [] variant = "part_000"  -> asciiFilename(name) \o pdf
       [] OTHER                 -> replaceAll(name, "\"", <<>>) \o pdf

(* --------------------- reports for the text renderers ----------------- *)
NoStyle ==
  [slot \in {"wrapper", "title", "text", "hr", "label", "thead", "container", "caption", "img"}
     |-> Undefined]

NoProps ==
  [text |-> Undefined, value |-> Undefined, size |-> Undefined, label |-> Undefined,
   lines |-> Undefined, title |-> Undefined, headers |-> <<>>, rows |-> <<>>,
   notes |-> Undefined, url |-> Undefined, alt |-> Undefined, caption |-> Undefined,
   width |-> Undefined, height |-> Undefined]

\* A report named "a" of one paragraph, everything else as the schema
\* defaults it.
NullTextReport ==
  [reportName |-> Str(<<"a">>),
   colors     |-> [text |-> Str(<<"#111827">>), border |-> Str(<<"#E5E7EB">>),
                   background |-> Undefined],
   assets     |-> [logo |-> Undefined, headerImage |-> Undefined, footerImage |-> Undefined,
                   backgroundImage |-> Undefined],
   configs    |->
     [page   |-> [size |-> "A4", orientation |-> "portrait", margin |-> Str(<<"20mm">>)],
      font   |-> [family |-> Str(<<"Inter, ui-sans-serif, system-ui">>),
                  base |-> Str(<<"text-[12pt]">>), leading |-> Str(<<"leading-relaxed">>)],
      header |-> [visible |-> TRUE, align |-> "center", repeat |-> "all"],
      footer |-> [visible |-> TRUE, text |-> Str(DefaultFooterText), align |-> "center"],
      date   |-> [align |-> "right"],
      table  |-> [border |-> Str(<<"border-2">>), striped |-> TRUE, compact |-> FALSE,
                  headerBg |-> Undefined]],
   components |-> <<[type |-> "para", props |-> [NoProps EXCEPT !.text = Str(<<"a">>)],
                     style |-> NoStyle]>>]

\* The reports renderHead and renderBody are called for: every string in
\* every string-valued props field; the types without such a field; style
\* overrides, image sizes, palette, font and page values; date components
\* (no value, no date, a date, a date and more text); tables; header and
\* footer bands.
RenderInputs ==
  LET Chars == {"a"} \cup DOMAIN Entity
      Strs == UNION {[1..n -> Chars] : n \in 0..MaxStr}
      Short == {<<>>} \cup {<<c>> : c \in Chars}
      LetterA == Str(<<"a">>)
      BaseProps(t) ==
        CASE t \in {"header", "subheader", "para", "footerText"} -> [NoProps EXCEPT !.text = LetterA]
          [] t = "table" -> [NoProps EXCEPT !.headers = <<LetterA>>, !.rows = <<<<LetterA>>>>]
          [] t = "image" -> [NoProps EXCEPT !.url = LetterA]
          [] OTHER -> NoProps
      TextComp(t, props, style) == [type |-> t, props |-> props, style |-> style]
      OneComp(c) == [NullTextReport EXCEPT !.components = <<c>>]
      StringFields ==
        {<<"header", "text">>, <<"subheader", "text">>, <<"para", "text">>,
         <<"footerText", "text">>, <<"table", "title">>, <<"table", "notes">>,
         <<"signature", "label">>, <<"image", "caption">>, <<"image", "alt">>,
         <<"image", "url">>}
      StyledSlots ==
        {<<"header", "wrapper">>, <<"subheader", "title">>, <<"para", "text">>,
         <<"divider", "hr">>, <<"table", "thead">>, <<"image", "img">>}
      DateValues ==
        {Undefined} \cup {Str(s) : s \in Strs} \cup {Str(<<IsoDate(1)>> \o s) : s \in Short}
      RowSamples ==
        { <<Str(<<"a">>), Num(1), Null>>, <<Str(<<"b">>), Num(2), Null>> }
  IN { OneComp(TextComp(tf[1], [BaseProps(tf[1]) EXCEPT ![tf[2]] = Str(s)], NoStyle)) :
         tf \in StringFields, s \in Strs }
     \cup { OneComp(TextComp("table", [NoProps EXCEPT !.headers = <<Str(s)>>,
                                                        !.rows = <<<<LetterA>>>>], NoStyle)) :
              s \in Strs }
     \cup { OneComp(TextComp("table", [NoProps EXCEPT !.headers = <<LetterA>>,
                                                        !.rows = <<<<Str(s)>>>>], NoStyle)) :
              s \in Strs }
     \cup { OneComp(TextComp(t, NoProps, NoStyle)) : t \in {"divider", "pagebreak", "chart"} }
     \cup { OneComp(TextComp("spacer", [NoProps EXCEPT !.size = sz], NoStyle)) :
              sz \in {Undefined, Str(<<"xs">>), Str(<<"xl">>)} }
     \cup { OneComp(TextComp("signature", [NoProps EXCEPT !.lines = n], NoStyle)) :
              n \in {Undefined, Num(1), Num(3)} }
     \cup { OneComp(TextComp(ts[1], BaseProps(ts[1]), [NoStyle EXCEPT ![ts[2]] = Str(s)])) :
              ts \in StyledSlots, s \in Short }
     \cup { OneComp(TextComp("image", [BaseProps("image") EXCEPT !.width = Str(w),
                                                                 !.height = Str(h)], NoStyle)) :
              w \in Short, h \in {<<>>, <<"a">>} }
     \cup { [NullTextReport EXCEPT !.colors[k] = Str(s),
                                   !.components = <<TextComp("divider", NoProps, NoStyle)>>] :
              k \in {"text", "border"}, s \in Short }
     \cup { [NullTextReport EXCEPT !.configs.font[k] = Str(s)] :
              k \in {"family", "base"}, s \in Short }
     \cup { [NullTextReport EXCEPT !.reportName = Str(n), !.configs.page.margin = Str(s)] :
              n \in Short, s \in {<<"20mm">>, <<"<">>} }
     \cup { OneComp(TextComp("date", [NoProps EXCEPT !.value = v], NoStyle)) : v \in DateValues }
     \cup { [NullTextReport EXCEPT
               !.configs.table.striped = st, !.configs.table.compact = ~st,
               !.components = <<TextComp("table", [NoProps EXCEPT !.headers = hs, !.rows = rows],
                                          NoStyle)>>] :
              st \in BOOLEAN, hs \in {<<>>, <<LetterA, LetterA, LetterA>>},
              rows \in UNION {[1..n -> RowSamples] : n \in 0..MaxRows} }
     \cup { [NullTextReport EXCEPT
               !.configs.header.visible = v, !.configs.header.repeat = rp,
               !.configs.footer.visible = v, !.configs.footer.text = Str(t)] :
              v \in BOOLEAN, rp \in {"all", "first"},
              t \in {DefaultFooterText, <<"<">>, <<"{{page}}", "{{page}}">>, <<>>} }

\* The reports footerTemplate is called for: every footer text template of
\* a few pieces, the default one, and a hidden footer.
FooterTextInputs ==
  LET TplPieces == {"Page", "of", " ", "<", "{{page}}", "{{pages}}"}
      Templates == UNION {[1..n -> TplPieces] : n \in 0..MaxTpl} \cup {DefaultFooterText}
  IN { [NullTextReport EXCEPT !.configs.footer.text = Str(t)] : t \in Templates }
     \cup { [NullTextReport EXCEPT !.configs.footer.visible = FALSE] }

\* The reports the export names a file after: every report name of a few
\* characters, U+00E9 being an accented letter and U+65E5 an ideograph.
NameInputs ==
  LET NameChars == {"a", "_", " ", "\"", "U+00E9", "U+65E5"}
  IN { [NullTextReport EXCEPT !.reportName = Str(n)] :
         n \in UNION {[1..k -> NameChars] : k \in 0..MaxName} }

\* What the text renderers are asked: the function, the report, the day the
\* clock shows and the results returned so far.
Lab(fn, report) == [fn |-> fn, report |-> report, today |-> 1, out |-> <<>>]

NoLab == Lab("none", NullTextReport)

LabInputs ==
  { Lab("render", r) : r \in RenderInputs }
  \cup { Lab("footerTemplate", r) : r \in FooterTextInputs }
  \cup { Lab("asciiFilename", r) : r \in NameInputs }

(* ---------------------------- specification --------------------------- *)
Init ==
  /\ variant \in Variants
  /\ load \in {"single", "concurrent", "engine"}
  /\ req = [r \in Requests |-> IdleReq]
  /\ browsers = <<>>
  /\ lab = NoLab

Next ==
  \E r \in Requests :
    \/ Receive(r)
    \/ FetchDone(r)
    \/ LaunchDone(r)
    \/ NewPageDone(r)
    \/ SetContentDone(r)
    \/ PageEvent(r)
    \/ EmulateDone(r)
    \/ PdfDone(r)
    \/ CloseDone(r)

Spec == Init /\ [][Next]_vars

\* The "engine" load with every external call a request waits for
\* eventually returning or failing.
FairInit == Init /\ load = "engine"

FairSpec ==
  /\ FairInit
  /\ [][Next]_vars
  /\ \A r \in Requests :
       WF_vars(\/ FetchDone(r)
               \/ LaunchDone(r)
               \/ NewPageDone(r)
               \/ SetContentDone(r)
               \/ EmulateDone(r)
               \/ PdfDone(r)
               \/ CloseDone(r))

(* ------------------- the text renderers, call by call ----------------- *)
\* renderHead and renderBody are called for the report; a caller may call
\* them again for the same report.
Render ==
  /\ lab.fn = "render"
  /\ Len(lab.out) \in {0, 1}
  /\ lab' = [lab EXCEPT !.out = Append(@, [head |-> renderHeadText(lab.report),
                                           body |-> renderBodyText(lab.report, lab.today)])]
  /\ UNCHANGED <<variant, load, req, browsers>>

\* footerTemplate is called for the report.
FooterTemplate ==
  /\ lab.fn = "footerTemplate"
  /\ lab.out = <<>>
  /\ lab' = [lab EXCEPT !.out = <<footerTemplateText(lab.report, Undefined)>>]
  /\ UNCHANGED <<variant, load, req, browsers>>

\* The export names the file after the report.
ExportFilename ==
  /\ lab.fn = "asciiFilename"
  /\ lab.out = <<>>
  /\ lab' = [lab EXCEPT !.out = <<exportFilename(String(lab.report.reportName))>>]
  /\ UNCHANGED <<variant, load, req, browsers>>

\* Midnight passes.
Tick ==
  /\ lab.today < MaxDay
  /\ lab' = [lab EXCEPT !.today = @ + 1]
  /\ UNCHANGED <<variant, load, req, browsers>>

InitText ==
  /\ variant \in Variants
  /\ load = "single"
  /\ req = [r \in Requests |-> IdleReq]
  /\ browsers = <<>>
  /\ lab \in LabInputs

NextText == Render \/ FooterTemplate \/ ExportFilename \/ Tick

SpecText == InitText /\ [][NextText]_vars

(* ------------------------------- claims ------------------------------- *)
Started(q) == q.pc # "idle"

Returned(q) == q.pc = "done"

Happened(q, e) == \E i \in 1..Len(q.events) : q.events[i].e = e

EngineSteps == {"launch", "newPage", "setContent", "emulateMediaType", "pdf"}

\* C1: every browser that was launched is used and closed by the request
\* that launched it and by no other, close is called on it at most once, and
\* when that request's handler has returned it has been closed exactly once,
\* whichever step failed and however the requests interleave.
C1_BrowserClosedOnceByOwner ==
  /\ \A b \in DOMAIN browsers :
       LET B == browsers[b]
       IN /\ B.users \subseteq {B.owner}
          /\ Len(B.closedBy) <= 1
          /\ \A i \in 1..Len(B.closedBy) : B.closedBy[i] = B.owner
          /\ req[B.owner].browser = b
          /\ B.state = "open" <=> B.closedBy = <<>>
          /\ Returned(req[B.owner]) => B.state = "closed" /\ B.closedBy = <<B.owner>>
  /\ \A r \in Requests : req[r].browser # 0 => req[r].browser \in DOMAIN browsers

\* Two exports overlap: the later one has failed in page.pdf and returned
\* with its browser closed while the earlier one's browser is still open.
C1_Witness ==
  \E r1, r2 \in Requests :
    /\ r1 # r2
    /\ req[r1].browser > req[r2].browser /\ req[r2].browser > 0
    /\ Returned(req[r1]) /\ req[r1].thrown = "pdf"
    /\ browsers[req[r1].browser].state = "closed"
    /\ req[r2].pc = "setContent" /\ browsers[req[r2].browser].state = "open"

\* C2: a request whose input failed validation is answered 400 with the
\* issues and nothing else happens for it: no fetch, no render, no browser,
\* no print-engine call, on both routes.
C2_InvalidShortCircuits ==
  \A r \in Requests :
    LET q == req[r]
    IN Started(q) /\ ~q.valid =>
         /\ q.responses = <<Response(400, "issues", "Invalid payload")>>
         /\ Returned(q)
         /\ q.events = <<Ev("validate", 0)>>
         /\ q.fetched = {} /\ q.html = <<>> /\ q.browser = 0 /\ ~q.pdf.called
         /\ \A b \in DOMAIN browsers : browsers[b].owner # r

\* An invalid preview and an invalid export have both been answered.
C2_Witness ==
  \E r1, r2 \in Requests :
    /\ req[r1].endpoint = "preview" /\ ~req[r1].valid /\ Returned(req[r1])
    /\ req[r2].endpoint = "export" /\ ~req[r2].valid /\ Returned(req[r2])

\* C3: no request gets more than one response; an export whose print-engine
\* step failed is answered 500 with the error's detail; a request answered
\* with a PDF had no failing step.
C3_EngineFailureIsStructuredError ==
  \A r \in Requests :
    LET q == req[r]
    IN /\ Len(q.responses) <= 1
       /\ q.thrown \in EngineSteps => q.responses = <<Response(500, "error", q.thrown)>>
       /\ (\E i \in 1..Len(q.responses) : q.responses[i].kind = "pdf") => q.thrown = ""

\* Two exports failed in different print-engine steps and were answered.
C3_Witness ==
  \E r1, r2 \in Requests :
    /\ req[r1].thrown = "launch" /\ Returned(req[r1])
    /\ req[r2].thrown = "setContent" /\ Returned(req[r2])

\* C4: in an export nothing is rendered while a fetch of hydration is still
\* to start or in flight: the head and body markup is built only once
\* hydration has completed for every image reference.
C4_RenderAfterHydration ==
  \A r \in Requests :
    LET q == req[r]
    IN q.endpoint = "export" /\ ~HydrationOver(q.st) => q.html = <<>>

\* C5: no fetch waits for another: while the fetch of one image reference
\* is in flight no other reference of the report is still waiting to start.
C5_FetchesConcurrent ==
  \A r \in Requests :
    \A a, b \in RefIds : ~(req[r].st[a] = "inflight" /\ req[r].st[b] = "pending")

\* C6: when no fetch failed, the document handed to the print engine and
\* the two pagination fragments hold no remote image reference.
C6_NoRemoteImageAfterHydration ==
  \A r \in Requests :
    LET q == req[r]
    IN q.pdf.called /\ q.failed = {} =>
         /\ ~HasRemoteImage(q.pdf.html)
         /\ ~HasRemoteImage(q.pdf.headerTemplate)
         /\ ~HasRemoteImage(q.pdf.footerTemplate)

\* C7: whichever fetches fail, hydration raises nothing: the handler neither
\* catches nor rejects with a hydration error, every error response comes
\* from a later step, and an export goes on to launch the browser.
C7_FetchFailuresAbsorbed ==
  \A r \in Requests :
    LET q == req[r]
    IN q.failed # {} =>
         /\ q.thrown # "hydrate" /\ q.settled # "rejected"
         /\ \A i \in 1..Len(q.responses) :
              q.responses[i].kind = "error" =>
                q.responses[i].detail \in EngineSteps \cup {"setHeader"}
         /\ q.endpoint = "export" /\ q.pc # "hydrate" =>
              Happened(q, "hydrated") /\ (Returned(q) => q.responses # <<>>)
         /\ q.endpoint = "preview" /\ q.pc # "hydrate" =>
              q.responses = <<Response(200, "html", "")>>

\* All three fetches of an export failed and the PDF was still delivered.
C7_Witness ==
  \E r \in Requests :
    /\ {1, 2, 3} \subseteq req[r].failed
    /\ req[r].responses = <<Response(200, "pdf", "")>>

\* The value hydration gave for the logo.
HydratedLogo(q) == IF InPlace THEN q.report.assets.logo ELSE q.tpl.logo

\* C8: when the logo cannot be fetched the logo is left unset and no logo
\* image appears in the body markup or in the pagination header fragment,
\* nothing is raised, and the text title is rendered as without a logo.
C8_UnreachableLogoOmitted ==
  \A r \in Requests :
    LET q == req[r]
    IN q.raw.assets.logo.kind = "remote" /\ 1 \in q.failed =>
         /\ q.thrown # "hydrate"
         /\ Happened(q, "hydrated") => ~Truthy(HydratedLogo(q))
         /\ ~HasImg(q.html, "logo")
         /\ q.pdf.called => ~HasImg(q.pdf.headerTemplate, "logo")
         /\ q.pdf.called /\ q.report.header.visible /\ ~Truthy(q.raw.assets.headerImage) =>
              HasEl(q.pdf.headerTemplate, "title")

\* C9: a logo that is already an inline data representation is not
\* retrieved, and hydration returns it unchanged.
C9_InlineLogoPassedThrough ==
  \A r \in Requests :
    LET q == req[r]
    IN q.valid /\ q.raw.assets.logo.kind = "data" =>
         /\ 1 \notin q.fetched
         /\ Happened(q, "hydrated") => HydratedLogo(q) = q.raw.assets.logo

\* The eleven variants of the component union as the document model states
\* them, with the props of each.
ClaimedVariants ==
  [t \in SchemaTypes \cup {"image"} |->
     IF t = "image"
       THEN [required |-> {"url"}, optional |-> {"alt", "caption", "width", "height"}]
       ELSE SchemaVariants[t]]

ClaimedComponentOk(c) ==
  /\ c.type \in DOMAIN ClaimedVariants
  /\ ClaimedVariants[c.type].required \subseteq c.keys
  /\ c.keys \subseteq (ClaimedVariants[c.type].required \cup ClaimedVariants[c.type].optional)
  /\ c.valuesOk

\* C10: a report whose root, assets and configs are in order is accepted
\* exactly when it has a component and each component is one of the eleven
\* variants with matching props; and each component type that arrives is
\* accepted by the validator exactly when the renderer has a case for it.
C10_ValidatorAcceptsElevenVariants ==
  \A r \in Requests :
    LET q == req[r]
    IN Started(q) =>
         /\ \A i \in 1..Len(q.raw.comps) :
              q.raw.comps[i].type \in SchemaTypes <=> q.raw.comps[i].type \in RendererTypes
         /\ ~q.raw.extraKey /\ (\A k \in DOMAIN q.raw.assets : AssetOk(q.raw.assets[k])) =>
              (q.valid <=> /\ Len(q.raw.comps) >= 1
                           /\ \A i \in 1..Len(q.raw.comps) : ClaimedComponentOk(q.raw.comps[i]))

\* C16: whenever the print engine is invoked, its format is Letter exactly
\* when page.size of the validated report (and of the request) is Letter
\* and A4 otherwise, and landscape is true exactly when page.orientation
\* is landscape.
C16_GeometryMatchesConfig ==
  \A r \in Requests :
    LET q == req[r]
    IN q.pdf.called =>
         /\ q.pdf.format = (IF q.parsed.page.size = "Letter" THEN "Letter" ELSE "A4")
         /\ (q.pdf.format = "Letter") <=> (q.raw.page.size = "Letter")
         /\ q.pdf.landscape <=> (q.parsed.page.orientation = "landscape")
         /\ q.pdf.landscape <=> (q.raw.page.orientation = "landscape")

\* A Letter landscape report reached page.pdf.
C16_Witness ==
  \E r \in Requests :
    /\ req[r].pdf.called
    /\ req[r].raw.page.size = "Letter"
    /\ req[r].raw.page.orientation = "landscape"
    /\ req[r].pdf.format = "Letter"
    /\ req[r].pdf.landscape

\* C17: every print-engine invocation has a margin of zero on all four
\* sides, whatever page.margin is, and enables the header/footer bands
\* with the two pagination fragments.
C17_ZeroMarginsAndBands ==
  \A r \in Requests :
    LET q == req[r]
    IN q.pdf.called =>
         /\ \A side \in {"top", "bottom", "left", "right"} : q.pdf.margin[side] = "0mm"
         /\ q.pdf.displayHeaderFooter
         /\ q.pdf.headerTemplate # <<>>
         /\ q.pdf.footerTemplate # <<>>

\* C19: the report a handler holds is, at every step after validation,
\* the value the validator returned: no step changes any of its fields.
C19_ReportImmutable ==
  \A r \in Requests : req[r].valid => req[r].report = req[r].parsed

(* ------------------------ claims on the markup text ------------------- *)
StartsWith(t, e) == Len(t) >= Len(e) /\ SubSeq(t, 1, Len(e)) = e

\* Text that is inert where it stands: it has none of < > " ' and every &
\* in it begins one of the five entities.
RECURSIVE Safe(_)
Safe(t) ==
  IF t = <<>> THEN TRUE
  ELSE IF Head(t) = "&"
         THEN \E c \in DOMAIN Entity :
                StartsWith(t, Entity[c]) /\ Safe(SubSeq(t, Len(Entity[c]) + 1, Len(t)))
  ELSE Head(t) \notin DOMAIN Entity /\ Safe(Tail(t))

\* What a browser shows for safe text: every entity read back once.
RECURSIVE Decode(_)
Decode(t) ==
  IF t = <<>> THEN <<>>
  ELSE IF Head(t) = "&" /\ \E c \in DOMAIN Entity : StartsWith(t, Entity[c])
         THEN LET c == CHOOSE x \in DOMAIN Entity : StartsWith(t, Entity[x])
              IN <<c>> \o Decode(SubSeq(t, Len(Entity[c]) + 1, Len(t)))
  ELSE <<Head(t)>> \o Decode(Tail(t))

\* The text inserted from field f, in order.
Inserted(m, f) ==
  LET segs == SelectSeq(m, LAMBDA x : x.k = "ins" /\ x.f = f)
  IN [i \in 1..Len(segs) |-> segs[i].t]

\* What a value shows as: nothing for null and undefined.
Shown(v) == IF IsNullish(v) THEN <<>> ELSE String(v)

\* C11: in the fragment rendered for a component, the text inserted from
\* every string-valued props field (text, title, headers, cells, notes,
\* label, caption, alt, url) is inert (no & < > " ' of the value stands
\* unescaped) and reads back as the value; the text of a date value is
\* inert too.
C11_PropsTextEscaped ==
  (lab.fn = "render" /\ Len(lab.report.components) = 1) =>
    \A n \in 1..Len(lab.out) :
      LET m == lab.out[n].body
          c == lab.report.components[1]
          RECURSIVE Flatten(_)
          Flatten(rows) == IF rows = <<>> THEN <<>> ELSE Head(rows) \o Flatten(Tail(rows))
      IN /\ \A i \in 1..Len(m) :
              (/\ m[i].k = "ins"
               /\ StartsWith(m[i].f, "props.")
               /\ m[i].f \notin {"props.width", "props.height"}) => Safe(m[i].t)
         /\ \A f \in {"text", "title", "notes", "label", "caption", "alt", "url"} :
              /\ \A i \in 1..Len(Inserted(m, "props." \o f)) :
                   Decode(Inserted(m, "props." \o f)[i]) = Shown(c.props[f])
              /\ (IsTruthy(c.props[f]) /\ c.type \in RendererTypes)
                   => Inserted(m, "props." \o f) # <<>>
         /\ c.type = "table" =>
              /\ [i \in 1..Len(c.props.headers) |-> Shown(c.props.headers[i])]
                   = [i \in 1..Len(c.props.headers) |-> Decode(Inserted(m, "props.headers")[i])]
              /\ Len(Inserted(m, "props.headers")) = Len(c.props.headers)
              /\ LET cells == Flatten(c.props.rows)
                 IN /\ Len(Inserted(m, "props.rows")) = Len(cells)
                    /\ \A i \in 1..Len(cells) :
                         Decode(Inserted(m, "props.rows")[i]) = Shown(cells[i])

\* A header whose text is <& was rendered: the text stands as &lt;&amp;.
C11_Witness ==
  /\ lab.fn = "render"
  /\ lab.out # <<>>
  /\ Len(lab.report.components) = 1
  /\ lab.report.components[1].type = "header"
  /\ lab.report.components[1].props.text = Str(<<"<", "&">>)
  /\ Inserted(lab.out[1].body, "props.text") = <<Entity["<"] \o Entity["&"]>>

\* C12: every user-supplied string is escaped where it is inserted: in
\* the head and body (footer band text, style override tokens, image
\* width and height, palette and font values included) and in the
\* pagination footer fragment.
C12_EveryInsertionEscaped ==
  LET AllSafe(m) == \A i \in 1..Len(m) : m[i].k = "ins" => Safe(m[i].t)
  IN /\ lab.fn = "render" =>
          \A n \in 1..Len(lab.out) : AllSafe(lab.out[n].head) /\ AllSafe(lab.out[n].body)
     /\ lab.fn = "footerTemplate" =>
          \A n \in 1..Len(lab.out) : AllSafe(lab.out[n])

\* C13: two calls of renderHead and renderBody for the same report return
\* the same markup, whenever they are made.
C13_RenderDeterministic ==
  (lab.fn = "render" /\ Len(lab.out) = 2) => lab.out[1] = lab.out[2]

\* C14: the export filename, without its extension, has only letters,
\* digits, underscore and hyphen, has no two separators in a row, neither
\* begins nor ends with a separator, and is "report" when the name holds no
\* ASCII letter or digit.
C14_FilenameSafe ==
  (lab.fn = "asciiFilename" /\ lab.out # <<>>) =>
    LET name == String(lab.report.reportName)
        base == SubSeq(lab.out[1], 1, Len(lab.out[1]) - Len(<<".", "p", "d", "f">>))
        Letters == {"a", "e", "r", "p", "o", "t"}
        Separators == {"_", "-", " ", "."}
    IN /\ base # <<>>
       /\ \A i \in 1..Len(base) : base[i] \in Letters \cup {"_", "-"}
       /\ \A i \in 1..(Len(base) - 1) :
            ~(base[i] \in Separators /\ base[i + 1] \in Separators)
       /\ base # <<>> => (base[1] \notin Separators /\ base[Len(base)] \notin Separators)
       /\ (\A i \in 1..Len(name) : name[i] \notin Letters)
            => base = <<"r", "e", "p", "o", "r", "t">>

\* C15: with the footer visible and a template that is not empty, the
\* footer fragment has one current-page marker per {{page}} and one
\* total-pages marker per {{pages}} of the
\* template, no text stands next to a marker without a non-breaking space
\* between them, no placeholder remains, and the default template gives
\* two markers with Page and of each in an element of their own.
C15_FooterMarkers ==
  (/\ lab.fn = "footerTemplate"
   /\ lab.out # <<>>
   /\ lab.report.configs.footer.visible
   /\ String(lab.report.configs.footer.text) # <<>>) =>
    LET m == lab.out[1]
        text == String(lab.report.configs.footer.text)
        Count(seq, x) == Len(SelectSeq(seq, LAMBDA y : y = x))
        PageNumber == Marks.pageNumber
        TotalPages == Marks.totalPages
        IsFooterText(seg) ==
          \/ seg.k = "ins" /\ seg.f = "footer.text"
          \/ seg \in {Lit(Marks.page), Lit(Marks.of), Lit(PageNumber), Lit(TotalPages)}
    IN /\ Count(m, Lit(PageNumber)) = Count(text, "{{page}}")
       /\ Count(m, Lit(TotalPages)) = Count(text, "{{pages}}")
       /\ \A i \in 2..(Len(m) - 1) :
            m[i] \in {Lit(PageNumber), Lit(TotalPages)}
              => ~IsFooterText(m[i - 1]) /\ ~IsFooterText(m[i + 1])
       /\ \A i \in 1..Len(m) :
            m[i].k = "ins" => m[i].t \notin {<<"{{page}}">>, <<"{{pages}}">>}
       /\ text = DefaultFooterText =>
            /\ Count(m, Lit(PageNumber)) + Count(m, Lit(TotalPages)) = 2
            /\ Count(m, Lit(Marks.page)) = 1
            /\ Count(m, Lit(Marks.of)) = 1

\* Where the body rows of a table begin in its markup.
RowStarts(m) == SelectSeq([i \in 1..Len(m) |-> i], LAMBDA i : m[i] = Lit("<tr class=\""))

\* The cell texts of the row that begins at index i.
RowCells(m, i) ==
  LET end == CHOOSE j \in i..Len(m) : m[j] = Lit("</tr>") /\ \A k \in i..(j - 1) : m[k] # Lit("</tr>")
  IN Inserted(SubSeq(m, i, end), "props.rows")

\* C18: a table of n body rows renders n rows in input order; with
\* striping row i (from 0) has the alternate background exactly when i is
\* odd, n \div 2 rows in all, and without striping no row has it; a null
\* cell is an empty cell.
C18_TableStriping ==
  (/\ lab.fn = "render"
   /\ Len(lab.report.components) = 1
   /\ lab.report.components[1].type = "table") =>
    \A n \in 1..Len(lab.out) :
      LET m == lab.out[n].body
          rows == lab.report.components[1].props.rows
          striped == lab.report.configs.table.striped
          starts == RowStarts(m)
          styled == {k \in 1..Len(starts) : m[starts[k] + 1] = Lit("bg-gray-50")}
      IN /\ Len(starts) = Len(rows)
         /\ \A k \in 1..Len(starts) :
              /\ (k \in styled) <=> (striped /\ (k - 1) % 2 = 1)
              /\ k \notin styled => m[starts[k] + 1] = Lit("")
              /\ Len(RowCells(m, starts[k])) = Len(rows[k])
              /\ \A j \in 1..Len(rows[k]) :
                   Decode(RowCells(m, starts[k])[j]) = Shown(rows[k][j])
              /\ \A j \in 1..Len(rows[k]) :
                   rows[k][j] = Null => RowCells(m, starts[k])[j] = <<>>
         /\ Cardinality(styled) = (IF striped THEN Len(rows) \div 2 ELSE 0)

\* The table [["a",1,null],["b",2,null]] was rendered with striping: the
\* first row is plain, the second styled.
C18_Witness ==
  /\ lab.fn = "render"
  /\ lab.out # <<>>
  /\ lab.report.configs.table.striped
  /\ lab.report.components[1].type = "table"
  /\ lab.report.components[1].props.rows
       = << <<Str(<<"a">>), Num(1), Null>>, <<Str(<<"b">>), Num(2), Null>> >>
  /\ LET m == lab.out[1].body
     IN /\ Len(RowStarts(m)) = 2
        /\ m[RowStarts(m)[1] + 1] = Lit("")
        /\ m[RowStarts(m)[2] + 1] = Lit("bg-gray-50")
        /\ RowCells(m, RowStarts(m)[2]) = << <<"b">>, <<"2">>, <<>> >>

\* C20: a date component whose value is not empty and is no date in its
\* first 10 characters renders, and its markup shows the value escaped exactly
\* once: the inserted text is inert and reads back as the value.
C20_RawDateEscapedOnce ==
  (/\ lab.fn = "render"
   /\ Len(lab.report.components) = 1
   /\ lab.report.components[1].type = "date"
   /\ IsTruthy(lab.report.components[1].props.value)
   /\ \A d \in 1..MaxDay :
        slice(String(lab.report.components[1].props.value), 10) # <<IsoDate(d)>>) =>
    \A n \in 1..Len(lab.out) :
      LET shown == Inserted(lab.out[n].body, "props.value")
      IN /\ Len(shown) = 1
         /\ Safe(shown[1])
         /\ Decode(shown[1]) = String(lab.report.components[1].props.value)


\* C21: the body markup of a report has the header in at most one form: the
\* fixed band exactly when the header is visible and repeats on all pages,
\* the inline block exactly when it is visible and shown on the first page
\* only (once, inside main and before the first component), neither when
\* the header is hidden; and the stylesheet reserves a header height exactly
\* when the fixed band is there.
C21_HeaderInOneForm ==
  lab.fn = "render" =>
    \A n \in 1..Len(lab.out) :
      LET m == lab.out[n].body
          h == lab.report.configs.header
          At(x) == {i \in 1..Len(m) : m[i] = x}
          fixed == At(Lit("<header class=\"fixed-header border-b\""))
          inline == At(Lit("<section class=\"mb-6 border-b pb-3\""))
          comps == {i \in 1..Len(m) : m[i].k = "ins" /\ StartsWith(m[i].f, "props.")}
          mainAt == {i \in 1..Len(m) : m[i].k = "ins" /\ m[i].f = "font.family"}
          reserved == \E i \in 1..Len(lab.out[n].head) :
                        lab.out[n].head[i] = Lit(";--header-h:48px")
          none == \E i \in 1..Len(lab.out[n].head) :
                    lab.out[n].head[i] = Lit(";--header-h:0px")
      IN /\ Cardinality(fixed) = (IF h.visible /\ h.repeat = "all" THEN 1 ELSE 0)
         /\ Cardinality(inline) = (IF h.visible /\ h.repeat = "first" THEN 1 ELSE 0)
         /\ Cardinality(fixed) + Cardinality(inline) <= 1
         /\ ~h.visible => fixed = {} /\ inline = {}
         /\ \A i \in inline : (\A j \in mainAt : j < i) /\ (\A j \in comps : i < j)
         /\ reserved <=> fixed # {}
         /\ reserved # none

\* A visible first-page header was rendered inline before the paragraph,
\* with no height reserved.
C21_Witness ==
  /\ lab.fn = "render"
  /\ Len(lab.out) >= 1
  /\ lab.report.configs.header.visible
  /\ lab.report.configs.header.repeat = "first"
  /\ Len(lab.report.components) = 1
  /\ Inserted(lab.out[1].body, "props.text") # <<>>
  /\ \E i \in 1..Len(lab.out[1].body) :
       lab.out[1].body[i] = Lit("<section class=\"mb-6 border-b pb-3\"")
  /\ \E i \in 1..Len(lab.out[1].head) : lab.out[1].head[i] = Lit(";--header-h:0px")

\* C22: when every external call (fetch, launch, newPage, setContent,
\* emulateMediaType, pdf, close) eventually returns or fails, every export
\* request gets a response, and never more than one.  The handler sets no
\* timeout: while an engine call is pending the request has no response and
\* its browser stays open, and only that call settling moves the request on.
C22_EveryExportAnswered ==
  /\ \A r \in Requests : [](Len(req[r].responses) <= 1)
  /\ \A r \in Requests :
       (req[r].endpoint = "export") ~> (req[r].pc = "done" /\ Len(req[r].responses) = 1)
  /\ \A r \in Requests :
       [](req[r].pc \in {"newPage", "setContent", "emulate", "pdf"} =>
            /\ req[r].responses = <<>>
            /\ browsers[req[r].browser].state = "open")
  /\ [][\A r \in Requests :
          (req[r].pc = "pdf" /\ req'[r].pc # "pdf") =>
             \/ Len(req'[r].events) > Len(req[r].events)
                  /\ req'[r].events[Len(req'[r].events)].e \in {"pdf", "catch"}]_vars

\* An export whose every call returned was answered once, with the PDF, and
\* its browser is closed.
C22_Witness ==
  \E r \in Requests :
    /\ req[r].endpoint = "export" /\ req[r].pc = "done"
    /\ Happened(req[r], "fetched") /\ Happened(req[r], "closed")
    /\ req[r].responses = <<Response(200, "pdf", "")>>
    /\ browsers[req[r].browser].state = "closed"

\* C23: a page error or console error that the page emits during an export
\* is only logged: the step changes nothing of the request but the log and
\* leaves the browsers alone, and an export whose PDF was generated answers
\* with the PDF however many lines were logged.
C23_PageEventsOnlyLogged ==
  /\ [][\A r \in Requests :
          PageEvent(r) =>
            /\ req'[r] = [req[r] EXCEPT !.pageLog = req'[r].pageLog]
            /\ browsers' = browsers]_vars
  /\ \A r \in Requests :
       []((req[r].pc = "done" /\ Happened(req[r], "pdf")) =>
            req[r].responses = <<Response(200, "pdf", "")>>)

\* An export that logged a page event answered with the PDF.
C23_Witness ==
  \E r \in Requests :
    /\ req[r].pc = "done"
    /\ Len(req[r].pageLog) = MaxPageEvents
    /\ req[r].responses = <<Response(200, "pdf", "")>>

\* C24: the footer band of the preview shows the footer text template with
\* every {{page}} and every {{pages}} taken out, the template being the one
\* the pagination fragment is made from (the default one when the
\* configured text is empty).
C24_PreviewFooterNoPlaceholder ==
  (lab.fn = "render" /\ lab.report.configs.footer.visible) =>
    \A n \in 1..Len(lab.out) :
      LET text == String(lab.report.configs.footer.text)
          raw == IF text = <<>> THEN DefaultFooterText ELSE text
          shown == Inserted(lab.out[n].body, "footer.text")
      IN /\ Len(shown) = 1
         /\ \A i \in 1..Len(shown[1]) : shown[1][i] \notin {"{{page}}", "{{pages}}"}
         /\ shown[1] = SelectSeq(raw, LAMBDA x : x \notin {"{{page}}", "{{pages}}"})

\* C25: nothing is written into the head or body markup for a field that
\* the validator does not define (the background colour, the table header
\* background, the background image): no "undefined" stands in the markup.
C25_NoAbsentFieldWritten ==
  lab.fn = "render" =>
    \A n \in 1..Len(lab.out) :
      LET m == lab.out[n].head \o lab.out[n].body
      IN \A i \in 1..Len(m) :
           (/\ m[i].k = "ins"
            /\ m[i].f \in {"colors.background", "table.headerBg", "assets.backgroundImage"})
             => m[i].t = <<>>

====
